---- MODULE Spec2Model ----
(***************************************************************************)
(* Model of prefect.orion.models.deployments: schedule_runs, the run       *)
(* generator _generate_scheduled_flow_runs and the bulk materializer       *)
(* _insert_scheduled_flow_runs, over the flow_run and flow_run_state       *)
(* tables.  Every `await session.execute(...)` of the materializer is one  *)
(* step of a caller; callers interleave at those steps.                    *)
(***************************************************************************)
EXTENDS Integers, Sequences, FiniteSets, TLC

\* ------------------------------------------------------------------ bounds
\* timestamps are 1..MaxTime
MaxTime == 3
\* number of schedule_runs calls started in one behaviour
MaxCalls == 3
\* number of schedule_runs calls started by the concurrent callers
MaxConcCalls == 2
\* number of schedule_runs calls started when storage operations may fail
MaxRetryCalls == 2
\* largest explicit max_runs argument
MaxRunsArg == MaxTime - 1
\* the readings of the wall clock
Nows == {0, 1}

\* ------------------------------------------------------- program constants
\* an omitted argument (Python None)
None == -1
\* SQL NULL in the state_id column
NULL == 0
\* default of max_runs
DefaultMaxRuns == 100
\* pendulum.now("UTC").add(years=1), in model time units
Year == 2

\* the concurrent callers of schedule_runs
Procs == {1, 2}
\* the caller of the specifications with one call at a time
SeqProcs == {1}

\* values of session.bind.dialect.name
Dialects == {"sqlite", "postgresql", "mysql"}

VARIABLES
    flow_run,                \* table flow_run: set of rows
    flow_run_state,          \* table flow_run_state: set of rows
    dialect,                 \* session.bind.dialect.name
    settings_dialect,        \* the dialect of the configured connection url
    now,                     \* pendulum.now("UTC")
    pc,                      \* per caller: position in schedule_runs
    args,                    \* per caller: arguments of the call in flight
    runs,                    \* per caller: the candidate list `runs`
    inserted_flow_run_ids,   \* per caller: result of the inserted_rows query
    result,                  \* per caller: the list returned by the last call
    error,                   \* per caller: the exception raised by the last call
    newRows,                 \* per caller: ids of rows its bulk insert added
    prior,                   \* per caller: the call in flight against its previous call
    ncalls                   \* calls started so far

vars == <<flow_run, flow_run_state, dialect, settings_dialect, now, pc, args, runs,
          inserted_flow_run_ids, result, error, newRows, prior, ncalls>>

\* ------------------------------------------------------------ deployments
\* rows of the deployment table (the store is read only here)
DeploymentIds == {1, 2, 4, 5}

\* deployment.flow_id
FlowOf(d) == 1

\* deployment.schedules, in relationship order (schedule ids)
SchedulesOf(d) == CASE d = 1 -> <<1, 2>> [] d = 2 -> <<3>> [] d = 5 -> <<>>
                     [] OTHER -> <<4, 5>>

\* the last occurrence of the clocks of schedules 4 and 5, which have more
\* occurrences than the default max_runs
DenseEnd == DefaultMaxRuns + MaxTime

\* the occurrences of a schedule's clock
ClockTimes(s) == CASE s = 2 -> {t \in 1..MaxTime : t % 2 = 0}
                   [] s \in {1, 3} -> 1..MaxTime
                   [] OTHER -> 1..DenseEnd

\* ---------------------------------------------------------------- helpers
\* the elements of a set of timestamps in increasing order
SortedSeq(S) ==
    [i \in 1..Cardinality(S) |->
        CHOOSE x \in S : Cardinality({y \in S : y < x}) = i - 1]

FirstN(s, n) == IF n <= 0 THEN <<>> ELSE SubSeq(s, 1, IF n < Len(s) THEN n ELSE Len(s))

Range(s) == {s[i] : i \in 1..Len(s)}

\* uuid4(): the k-th of the smallest ids not in use
Fresh(used, k) ==
    CHOOSE x \in 1..(Cardinality(used) + k) :
        x \notin used /\ Cardinality({y \in 1..x : y \notin used}) = k

\* schedule.clock.get_dates(n, start, end)
get_dates(s, n, start, end) ==
    FirstN(SortedSeq({t \in ClockTimes(s) : start <= t /\ t <= end}), n)

\* str() of a schedule id or of a date: its decimal digits, one character each
Str(n) ==
    LET digit(k) == <<"0", "1", "2", "3", "4", "5", "6", "7", "8", "9">>[k + 1]
    IN IF n < 10 THEN <<digit(n)>>
       ELSE IF n < 100 THEN <<digit(n \div 10), digit(n % 10)>>
       ELSE <<digit(n \div 100), digit((n \div 10) % 10), digit(n % 10)>>

\* the key is formatted from the date alone
IdempotencyKey_date_only(s, date) == <<"scheduled", " ">> \o Str(date)

\* f"scheduled {schedule.id} {date}": the concatenation of the characters of
\* the literal, the schedule id, a blank and the date
IdempotencyKey(s, date) == <<"scheduled", " ">> \o Str(s) \o <<" ">> \o Str(date)

\* get_dates is called without the limit n=max_runs
RECURSIVE Occurrences_unlimited(_, _, _, _, _)
Occurrences_unlimited(scheds, i, n, start, end) ==
    IF i > Len(scheds) THEN <<>>
    ELSE LET dates == get_dates(scheds[i], DenseEnd, start, end)
         IN [j \in 1..Len(dates) |-> <<scheds[i], dates[j]>>]
            \o Occurrences_unlimited(scheds, i + 1, n, start, end)

\* the (schedule, date) pairs of the two nested loops
RECURSIVE Occurrences(_, _, _, _, _)
Occurrences(scheds, i, n, start, end) ==
    IF i > Len(scheds) THEN <<>>
    ELSE LET dates == get_dates(scheds[i], n, start, end)
         IN [j \in 1..Len(dates) |-> <<scheds[i], dates[j]>>]
            \o Occurrences(scheds, i + 1, n, start, end)

\* the arguments after the three defaults
EffMaxRuns(a) == IF a.max_runs = None THEN DefaultMaxRuns ELSE a.max_runs
EffStart(a, clk) == IF a.start_time = None THEN clk ELSE a.start_time
EffEnd(a, clk) == IF a.end_time = None THEN clk + Year ELSE a.end_time

\* the candidate's state has another type
ScheduledState_pending(id, date) == [id |-> id, type |-> "PENDING", scheduled_time |-> date]

\* schemas.states.State(type=SCHEDULED, ...) of a candidate
ScheduledState(id, date) == [id |-> id, type |-> "SCHEDULED", scheduled_time |-> date]

\* _generate_scheduled_flow_runs: the list `runs`
generate_scheduled_flow_runs(a, clk, usedRunIds, usedStateIds) ==
    LET d == a.deployment_id
        occ == Occurrences(SchedulesOf(d), 1, EffMaxRuns(a), EffStart(a, clk), EffEnd(a, clk))
    IN [i \in 1..Len(occ) |->
          [id |-> Fresh(usedRunIds, i),
           flow_id |-> FlowOf(d),
           deployment_id |-> d,
           idempotency_key |-> IdempotencyKey(occ[i][1], occ[i][2]),
           tags |-> <<"auto-scheduled">>,
           schedule_id |-> occ[i][1],
           state_id |-> NULL,
           state |-> ScheduledState(Fresh(usedStateIds, i), occ[i][2])]]

\* a row of flow_run from a candidate: r.dict(exclude={"created", "updated"})
RunRow(r) == [id |-> r.id, flow_id |-> r.flow_id, deployment_id |-> r.deployment_id,
              idempotency_key |-> r.idempotency_key, schedule_id |-> r.schedule_id,
              state_id |-> r.state_id]

\* the conflict target is the primary key instead of the idempotency key
Conflicts_primary_key(table, r) == \E x \in table : x.id = r.id

\* insert(...).on_conflict_do_nothing(index_elements=["flow_id", "idempotency_key"])
Conflicts(table, r) ==
    \E x \in table : x.flow_id = r.flow_id /\ x.idempotency_key = r.idempotency_key

\* a plain bulk insert, without on_conflict_do_nothing
InsertOrIgnore_plain(table, rs, i) ==
    table \cup {RunRow(rs[j]) : j \in i..Len(rs)}

RECURSIVE InsertOrIgnore(_, _, _)
InsertOrIgnore(table, rs, i) ==
    IF i > Len(rs) THEN table
    ELSE InsertOrIgnore(IF Conflicts(table, rs[i]) THEN table
                        ELSE table \cup {RunRow(rs[i])}, rs, i + 1)

\* the query does not go through flow_run: every submitted id without a state
InsertedRows_submitted(fr, frs, rs) ==
    {rs[i].id : i \in {j \in 1..Len(rs) : ~ \E s \in frs : s.flow_run_id = rs[j].id}}

\* the query is not restricted to the submitted ids: every row without a state
InsertedRows_unfiltered(fr, frs, rs) ==
    {x.id : x \in {y \in fr : ~ \E s \in frs : s.flow_run_id = y.id}}

\* the inserted_rows query: outer join on flow_run_state, state side absent
InsertedRows(fr, frs, rs) ==
    {x.id : x \in {y \in fr : /\ y.id \in {rs[i].id : i \in 1..Len(rs)}
                              /\ ~ \E s \in frs : s.flow_run_id = y.id}}

\* the first new run is left out
InsertFlowRunStates_skip_first(rs, ids) ==
    LET sel == Tail(SelectSeq(rs, LAMBDA r : r.id \in ids))
    IN [i \in 1..Len(sel) |->
          [id |-> sel[i].state.id, flow_run_id |-> sel[i].id,
           type |-> sel[i].state.type, scheduled_time |-> sel[i].state.scheduled_time]]

\* the rows of insert_flow_run_states
InsertFlowRunStates(rs, ids) ==
    LET sel == SelectSeq(rs, LAMBDA r : r.id \in ids)
    IN [i \in 1..Len(sel) |->
          [id |-> sel[i].state.id, flow_run_id |-> sel[i].id,
           type |-> sel[i].state.type, scheduled_time |-> sel[i].state.scheduled_time]]

\* UPDATE flow_run SET state_id = flow_run_state.id FROM flow_run_state WHERE ...
UpdateFrom(fr, frs, stateIds) ==
    {IF \E s \in frs : s.flow_run_id = x.id /\ s.id \in stateIds
     THEN [x EXCEPT !.state_id =
              (CHOOSE s \in frs : s.flow_run_id = x.id /\ s.id \in stateIds).id]
     ELSE x : x \in fr}

\* the subquery is not correlated with the row: one new state for every row
UpdateSubquery_uncorrelated(fr, frs, stateIds) ==
    {[x EXCEPT !.state_id =
         IF \E s \in frs : s.id \in stateIds
         THEN (CHOOSE s \in frs : s.id \in stateIds).id
         ELSE NULL] : x \in fr}

\* UPDATE flow_run SET state_id = (SELECT ... LIMIT 1), no WHERE clause
UpdateSubquery(fr, frs, stateIds) ==
    {[x EXCEPT !.state_id =
         IF \E s \in frs : s.flow_run_id = x.id /\ s.id \in stateIds
         THEN (CHOOSE s \in frs : s.flow_run_id = x.id /\ s.id \in stateIds).id
         ELSE NULL] : x \in fr}

\* get_dialect()
GetDialect == settings_dialect

\* every candidate is returned
Returned_all(rs, ids) == rs

\* the final list comprehension
Returned(rs, ids) == SelectSeq(rs, LAMBDA r : r.id \in ids)

\* ------------------------------------------------------------------ state
\* the arguments callers pass
ArgSet == [deployment_id : {1, 2, 3, 5},
           start_time : {None, MaxTime - 1},
           end_time : {None, MaxTime - 1},
           max_runs : {None} \cup 1..MaxRunsArg]

\* the arguments the concurrent callers pass
ConcArgSet == {a \in ArgSet : a.start_time = None /\ a.max_runs \in {None, 1}}

\* the arguments given to the generator alone
GenArgSet == [deployment_id : DeploymentIds,
              start_time : {None, MaxTime - 1},
              end_time : {None, MaxTime - 1, DenseEnd},
              max_runs : {None} \cup 1..MaxRunsArg]

NoArgs == [deployment_id |-> None, start_time |-> None, end_time |-> None,
           max_runs |-> None]

NoPrior == [same |-> FALSE, narrowed |-> FALSE]

\* an empty store and callers that have not called yet
InitStore ==
    /\ flow_run = {}
    /\ flow_run_state = {}
    /\ dialect \in Dialects
    /\ now \in Nows
    /\ pc = [p \in Procs |-> "idle"]
    /\ args = [p \in Procs |-> NoArgs]
    /\ runs = [p \in Procs |-> <<>>]
    /\ inserted_flow_run_ids = [p \in Procs |-> {}]
    /\ result = [p \in Procs |-> <<>>]
    /\ error = [p \in Procs |-> "none"]
    /\ newRows = [p \in Procs |-> {}]
    /\ prior = [p \in Procs |-> NoPrior]
    /\ ncalls = 0

\* the session is bound to the engine of the configured connection url
Init == InitStore /\ settings_dialect = dialect

\* the session is bound to an engine of its own
InitOwnEngine == InitStore /\ settings_dialect \in Dialects

UsedRunIds == {x.id : x \in flow_run}
                \cup UNION {{runs[q][i].id : i \in 1..Len(runs[q])} : q \in Procs}
                \cup UNION {{result[q][i].id : i \in 1..Len(result[q])} : q \in Procs}
UsedStateIds == {s.id : s \in flow_run_state}
                \cup UNION {{runs[q][i].state.id : i \in 1..Len(runs[q])} : q \in Procs}
                \cup UNION {{result[q][i].state.id : i \in 1..Len(result[q])} : q \in Procs}

Idle(p) == pc[p] \in {"idle", "returned", "raised"}

\* ---------------------------------------------------------------- actions
\* a caller enters schedule_runs
Begin(p, a, maxc) ==
    /\ Idle(p)
    /\ ncalls < maxc
    /\ ncalls' = ncalls + 1
    /\ args' = [args EXCEPT ![p] = a]
    /\ result' = [result EXCEPT ![p] = <<>>]
    /\ inserted_flow_run_ids' = [inserted_flow_run_ids EXCEPT ![p] = {}]
    /\ newRows' = [newRows EXCEPT ![p] = {}]
    /\ prior' = [prior EXCEPT ![p] =
                   [same |-> pc[p] = "returned" /\ a = args[p],
                    narrowed |-> /\ pc[p] = "returned"
                                 /\ a.deployment_id = args[p].deployment_id
                                 /\ a.start_time = args[p].start_time
                                 /\ a.end_time = args[p].end_time
                                 /\ EffMaxRuns(a) < EffMaxRuns(args[p])]]
    /\ UNCHANGED <<flow_run, flow_run_state, dialect, settings_dialect, now>>

\* session.get returns None: deployment.schedules raises
DeploymentMissing(p, A, maxc) ==
    \E a \in A :
        /\ a.deployment_id \notin DeploymentIds
        /\ Begin(p, a, maxc)
        /\ runs' = [runs EXCEPT ![p] = <<>>]
        /\ pc' = [pc EXCEPT ![p] = "raised"]
        /\ error' = [error EXCEPT ![p] = "AttributeError"]

\* the first two branches of the dialect test take any name
Recognized_any(d) == TRUE

\* the dialect names that select an insert construct
Recognized(d) == d \in {"sqlite", "postgresql"}

\* the dialect is neither sqlite nor postgresql: ValueError
UnrecognizedDialect(p, A, maxc) ==
    \E a \in A :
        /\ a.deployment_id \in DeploymentIds
        /\ ~Recognized(dialect)
        /\ Begin(p, a, maxc)
        /\ runs' = [runs EXCEPT ![p] = <<>>]
        /\ pc' = [pc EXCEPT ![p] = "raised"]
        /\ error' = [error EXCEPT ![p] = "ValueError"]

\* _generate_scheduled_flow_runs on a deployment that exists: the candidates
\* are built, whatever the dialect of the session, and nothing is stored
GenerateRuns(p, A, maxc) ==
    \E a \in A :
        /\ a.deployment_id \in DeploymentIds
        /\ Begin(p, a, maxc)
        /\ runs' = [runs EXCEPT ![p] =
                      generate_scheduled_flow_runs(a, now, UsedRunIds, UsedStateIds)]
        /\ pc' = [pc EXCEPT ![p] = "insert"]
        /\ error' = [error EXCEPT ![p] = "none"]

\* the candidates are generated, the dialect selects an insert construct and
\* the bulk insert is about to be issued
schedule_runs(p, A, maxc) ==
    /\ Recognized(dialect)
    /\ GenerateRuns(p, A, maxc)

\* the bulk insert with an empty parameter list: session.execute takes an empty
\* list for no parameters and executes the statement once, for a row of column
\* defaults whose flow_id is null; a null in a required column is no conflict
\* on (flow_id, idempotency_key), so the statement fails and stores nothing
InsertNoParameters(p) ==
    /\ pc[p] = "insert"
    /\ runs[p] = <<>>
    /\ pc' = [pc EXCEPT ![p] = "raised"]
    /\ error' = [error EXCEPT ![p] = "IntegrityError"]
    /\ inserted_flow_run_ids' = [inserted_flow_run_ids EXCEPT ![p] = {}]
    /\ newRows' = [newRows EXCEPT ![p] = {}]
    /\ UNCHANGED <<flow_run, flow_run_state, dialect, settings_dialect, now, args,
                   runs, result, prior, ncalls>>

\* the bulk insert-or-ignore
InsertFlowRuns(p) ==
    /\ pc[p] = "insert"
    /\ runs[p] # <<>>
    /\ flow_run' = InsertOrIgnore(flow_run, runs[p], 1)
    /\ newRows' = [newRows EXCEPT ![p] = {x.id : x \in flow_run' \ flow_run}]
    /\ pc' = [pc EXCEPT ![p] = "select"]
    /\ UNCHANGED <<flow_run_state, dialect, settings_dialect, now, args, runs, inserted_flow_run_ids,
                   result, error, prior, ncalls>>

\* the inserted_rows query
SelectInserted(p) ==
    /\ pc[p] = "select"
    /\ inserted_flow_run_ids' = [inserted_flow_run_ids EXCEPT ![p] =
                                   InsertedRows(flow_run, flow_run_state, runs[p])]
    /\ pc' = [pc EXCEPT ![p] = "states"]
    /\ UNCHANGED <<flow_run, flow_run_state, dialect, settings_dialect, now, args, runs, result,
                   error, newRows, prior, ncalls>>

\* the call returns: the list goes to the caller, the locals are gone
Finish(p) ==
    /\ result' = [result EXCEPT ![p] = Returned(runs[p], inserted_flow_run_ids[p])]
    /\ pc' = [pc EXCEPT ![p] = "returned"]
    /\ runs' = [runs EXCEPT ![p] = <<>>]
    /\ inserted_flow_run_ids' = [inserted_flow_run_ids EXCEPT ![p] = {}]
    /\ newRows' = [newRows EXCEPT ![p] = {}]
    /\ UNCHANGED <<dialect, settings_dialect, now, args, error, prior, ncalls>>

\* no new row: both writes are skipped and the call returns
ReturnNothingNew(p) ==
    /\ pc[p] = "states"
    /\ InsertFlowRunStates(runs[p], inserted_flow_run_ids[p]) = <<>>
    /\ Finish(p)
    /\ UNCHANGED <<flow_run, flow_run_state>>

\* the bulk insert of the states
InsertStates(p) ==
    /\ pc[p] = "states"
    /\ InsertFlowRunStates(runs[p], inserted_flow_run_ids[p]) # <<>>
    /\ flow_run_state' = flow_run_state
          \cup Range(InsertFlowRunStates(runs[p], inserted_flow_run_ids[p]))
    /\ pc' = [pc EXCEPT ![p] = "update"]
    /\ UNCHANGED <<flow_run, dialect, settings_dialect, now, args, runs, inserted_flow_run_ids, result,
                   error, newRows, prior, ncalls>>

\* the update of state_id, then the return
SetStateId(p) ==
    /\ pc[p] = "update"
    /\ LET ids == {s.id : s \in Range(InsertFlowRunStates(runs[p], inserted_flow_run_ids[p]))}
       IN flow_run' = IF GetDialect = "postgresql"
                      THEN UpdateFrom(flow_run, flow_run_state, ids)
                      ELSE UpdateSubquery(flow_run, flow_run_state, ids)
    /\ Finish(p)
    /\ UNCHANGED flow_run_state

\* a storage operation fails: the error reaches the caller, earlier writes stay
Fail(p) ==
    /\ pc[p] \in {"insert", "select", "states", "update"}
    /\ pc' = [pc EXCEPT ![p] = "raised"]
    /\ error' = [error EXCEPT ![p] = "StorageError"]
    /\ runs' = [runs EXCEPT ![p] = <<>>]
    /\ inserted_flow_run_ids' = [inserted_flow_run_ids EXCEPT ![p] = {}]
    /\ newRows' = [newRows EXCEPT ![p] = {}]
    /\ UNCHANGED <<flow_run, flow_run_state, dialect, settings_dialect, now, args, result, prior, ncalls>>

Step(p, A, maxc) ==
    \/ DeploymentMissing(p, A, maxc)
    \/ UnrecognizedDialect(p, A, maxc)
    \/ schedule_runs(p, A, maxc)
    \/ InsertNoParameters(p)
    \/ InsertFlowRuns(p)
    \/ SelectInserted(p)
    \/ ReturnNothingNew(p)
    \/ InsertStates(p)
    \/ SetStateId(p)

\* concurrent callers, every storage operation succeeds
Next == \E p \in Procs : Step(p, ConcArgSet, MaxConcCalls)
Spec == Init /\ [][Next]_vars

\* one call at a time, every storage operation succeeds
NextSeq == \E p \in SeqProcs : Step(p, ArgSet, MaxCalls)
SpecSeq == Init /\ [][NextSeq]_vars

\* one call at a time on a session bound to an engine of its own
NextOwnEngine == \E p \in SeqProcs : Step(p, ConcArgSet, MaxConcCalls)
SpecOwnEngine == InitOwnEngine /\ [][NextOwnEngine]_vars

\* one call at a time, storage operations may fail
NextRetry == \E p \in SeqProcs : Step(p, ArgSet, MaxRetryCalls) \/ Fail(p)
SpecRetry == Init /\ [][NextRetry]_vars

\* the generator alone, on every deployment
NextGen == \E p \in SeqProcs : GenerateRuns(p, GenArgSet, 1)
SpecGen == Init /\ [][NextGen]_vars

\* ----------------------------------------------------------------- claims
Tables == <<flow_run, flow_run_state>>

\* C1: a call that repeats the arguments of the caller's previous, returned call
\* changes neither table at any of its steps and returns the empty list.
C1_Idempotence ==
    [][\A p \in SeqProcs :
          (prior[p].same /\ ~Idle(p)) =>
              /\ Tables' = Tables
              /\ (pc'[p] = "returned" => result'[p] = <<>>)]_vars

\* a repeated call has returned and the first one had materialized runs
C1_Witness ==
    \E p \in SeqProcs : /\ pc[p] = "returned"
                         /\ prior[p].same
                         /\ result[p] = <<>>
                         /\ Cardinality(flow_run) >= 2
                         /\ Cardinality(flow_run_state) = Cardinality(flow_run)

\* C2: when a call has returned, every persisted flow run has a state_id.
C2_NoOrphans ==
    \A p \in SeqProcs : pc[p] = "returned" => \A x \in flow_run : x.state_id # NULL

\* C3: no two rows of flow_run share (flow_id, idempotency_key).
C3_Uniqueness ==
    \A x, y \in flow_run :
        (x.flow_id = y.flow_id /\ x.idempotency_key = y.idempotency_key) => x = y

\* two callers have both issued their bulk insert with a common key
C3_Witness ==
    \E p, q \in Procs :
        /\ p # q
        /\ pc[p] \in {"select", "states", "update"}
        /\ pc[q] \in {"select", "states", "update"}
        /\ \E i \in 1..Len(runs[p]), j \in 1..Len(runs[q]) :
              /\ runs[p][i].idempotency_key = runs[q][j].idempotency_key
              /\ runs[p][i].id \in newRows[p]
              /\ runs[q][j].id \notin newRows[q]

\* the candidates the arguments of caller p generate
Candidates(p) == generate_scheduled_flow_runs(args[p], now, {}, {})
CandidateKeys(p) == {Candidates(p)[i].idempotency_key : i \in 1..Len(Candidates(p))}
StatesOf(id) == {s \in flow_run_state : s.flow_run_id = id}

\* C4: when a call has returned, every persisted run whose idempotency key is
\* among the call's candidates, the runs an earlier failed call left without a
\* state included, has exactly one state row and a state_id.
C4_RepairOnRetry ==
    \A p \in SeqProcs :
        pc[p] = "returned" =>
            \A x \in flow_run :
                x.idempotency_key \in CandidateKeys(p) =>
                    x.state_id # NULL /\ Cardinality(StatesOf(x.id)) = 1

\* C5: of two racing callers at most one inserts the row of a key; the other
\* neither selects its own candidate of that key nor creates a state for it;
\* when all callers are done every run has one row per key and one state row.
C5_DuplicateRace ==
    /\ \A p, q \in Procs : \A x, y \in flow_run :
          (p # q /\ x.id \in newRows[p] /\ y.id \in newRows[q]) =>
              ~ (x.flow_id = y.flow_id /\ x.idempotency_key = y.idempotency_key)
    /\ \A p \in Procs : \A i \in 1..Len(runs[p]) :
          (pc[p] # "insert" /\ runs[p][i].id \notin newRows[p]) =>
              /\ runs[p][i].id \notin inserted_flow_run_ids[p]
              /\ StatesOf(runs[p][i].id) = {}
    /\ (\A p \in Procs : Idle(p)) =>
          \A x \in flow_run :
              /\ Cardinality(StatesOf(x.id)) = 1
              /\ \A y \in flow_run :
                    (y.flow_id = x.flow_id /\ y.idempotency_key = x.idempotency_key) => y = x

\* a caller has run its detection after losing a key to a caller still in flight
C5_Witness ==
    \E p, q \in Procs :
        /\ p # q
        /\ pc[p] = "states"
        /\ pc[q] \in {"select", "states", "update"}
        /\ \E i \in 1..Len(runs[p]), x \in flow_run :
              /\ runs[p][i].id \notin newRows[p]
              /\ x.idempotency_key = runs[p][i].idempotency_key
              /\ x.id \in newRows[q]

\* C6: no step adds a state row for a run that already has one, no run has two
\* state rows, and every run a call returns has exactly one.
C6_OneStatePerRun ==
    /\ [](\A s, t \in flow_run_state : s.flow_run_id = t.flow_run_id => s = t)
    /\ [](\A p \in Procs : pc[p] = "returned" =>
             \A i \in 1..Len(result[p]) : Cardinality(StatesOf(result[p][i].id)) = 1)
    /\ [][\A s \in flow_run_state' \ flow_run_state : StatesOf(s.flow_run_id) = {}]_vars

\* a call has returned new runs into a store that already held runs with states
C6_Witness ==
    \E p \in Procs : /\ pc[p] = "returned"
                      /\ result[p] # <<>>
                      /\ Cardinality(flow_run_state) > Len(result[p])
                      /\ Len(result[p]) < Len(Candidates(p))

\* C7: the update of state_id leaves every row outside the caller's new rows as
\* it was.
C7_LinkFrame ==
    [][\A p \in Procs :
          (pc[p] = "update" /\ pc'[p] = "returned") =>
              \A x \in flow_run : x.id \notin newRows[p] => x \in flow_run']_vars

\* C8: the returned list is the sub-list of the candidates whose row this call
\* inserted, in candidate order, and the call raises nothing.
C8_Result ==
    [][\A p \in Procs :
          (~Idle(p) /\ pc'[p] = "returned") =>
              /\ result'[p] = SelectSeq(runs[p], LAMBDA r : r.id \in newRows[p])
              /\ error'[p] = "none"]_vars

\* a call has returned some but not all of its candidates
C8_Witness ==
    \E p \in Procs : /\ pc[p] = "returned"
                      /\ result[p] # <<>>
                      /\ Len(result[p]) < Len(Candidates(p))
                      /\ error[p] = "none"

\* C9: the generator yields at most max_runs candidates per schedule, 100 when
\* max_runs is omitted, hence at most N * max_runs for N schedules.
C9_CountBound ==
    \A p \in SeqProcs :
        pc[p] = "insert" =>
            LET limit == IF args[p].max_runs = None THEN DefaultMaxRuns ELSE args[p].max_runs
                scheds == SchedulesOf(args[p].deployment_id)
            IN /\ \A i \in 1..Len(scheds) :
                     Cardinality({j \in 1..Len(runs[p]) : runs[p][j].schedule_id = scheds[i]})
                        <= limit
               /\ Len(runs[p]) <= Len(scheds) * limit

\* max_runs is omitted, a clock with more occurrences is cut at the default,
\* and the two schedules together yield more than the default
C9_Witness ==
    \E p \in SeqProcs :
        /\ pc[p] = "insert"
        /\ args[p].max_runs = None
        /\ Cardinality({j \in 1..Len(runs[p]) : runs[p][j].schedule_id = 4}) = DefaultMaxRuns
        /\ Cardinality({t \in ClockTimes(4) : /\ EffStart(args[p], now) <= t
                                              /\ t <= EffEnd(args[p], now)}) > DefaultMaxRuns
        /\ Len(runs[p]) > DefaultMaxRuns

\* the occurrences of the only schedule of the deployment of caller p in its window
InWindow(p) ==
    {t \in ClockTimes(SchedulesOf(args[p].deployment_id)[1]) :
        EffStart(args[p], now) <= t /\ t <= EffEnd(args[p], now)}

OneSchedule(p) ==
    args[p].deployment_id \in DeploymentIds /\ Len(SchedulesOf(args[p].deployment_id)) = 1

\* C10: on a deployment with one schedule, the first call with max_runs >= k
\* returns the k occurrences of the window as runs with a SCHEDULED state; a
\* call repeating the previous call, or repeating it with a smaller max_runs,
\* returns nothing and leaves both tables as they are.
C10_ThreeCalls ==
    /\ [](\A p \in SeqProcs :
            (pc[p] = "returned" /\ OneSchedule(p)) =>
                /\ (ncalls = 1 /\ EffMaxRuns(args[p]) >= Cardinality(InWindow(p))) =>
                      /\ Len(result[p]) = Cardinality(InWindow(p))
                      /\ \A i \in 1..Len(result[p]) :
                            /\ result[p][i].state.type = "SCHEDULED"
                            /\ \E s \in StatesOf(result[p][i].id) : s.type = "SCHEDULED"
                /\ (prior[p].same \/ prior[p].narrowed) => result[p] = <<>>)
    /\ [][\A p \in SeqProcs :
            (~Idle(p) /\ OneSchedule(p) /\ (prior[p].same \/ prior[p].narrowed)) =>
                Tables' = Tables]_vars

\* the third call, with a smaller max_runs, has returned nothing and the runs
\* of the first call are all there with their states
C10_Witness ==
    \E p \in SeqProcs :
        /\ pc[p] = "returned"
        /\ OneSchedule(p)
        /\ ncalls = 3
        /\ prior[p].narrowed
        /\ args[p].max_runs = 1
        /\ result[p] = <<>>
        /\ Cardinality(flow_run) = MaxTime
        /\ \A x \in flow_run : x.state_id # NULL

\* the (schedule id, timestamp) pair a candidate was generated from
Pair(r) == <<r.schedule_id, r.state.scheduled_time>>

\* C11: the idempotency key of a candidate is determined by its (schedule id,
\* timestamp) pair alone: candidates of any calls in flight have the same key
\* exactly when they have the same pair, and once a call has issued its bulk
\* insert every candidate's key is stored in a row of the candidate's own
\* schedule, so two schedules firing at the same instant give two rows.
C11_KeyDerivation ==
    /\ \A p, q \in Procs : \A i \in 1..Len(runs[p]) : \A j \in 1..Len(runs[q]) :
          (Pair(runs[p][i]) = Pair(runs[q][j]))
              <=> (runs[p][i].idempotency_key = runs[q][j].idempotency_key)
    /\ \A p \in Procs :
          pc[p] \in {"select", "states", "update"} =>
              \A i \in 1..Len(runs[p]) :
                  \E x \in flow_run :
                      /\ x.idempotency_key = runs[p][i].idempotency_key
                      /\ x.schedule_id = runs[p][i].schedule_id

\* two callers hold candidates of the same pair under different ids, and one
\* of them has inserted rows for two schedules that fire at the same instant
C11_Witness ==
    \E p, q \in Procs :
        /\ p # q
        /\ \E i \in 1..Len(runs[p]) : \E j \in 1..Len(runs[q]) :
              /\ Pair(runs[p][i]) = Pair(runs[q][j])
              /\ runs[p][i].id # runs[q][j].id
        /\ \E i, j \in 1..Len(runs[p]) :
              /\ runs[p][i].schedule_id # runs[p][j].schedule_id
              /\ runs[p][i].state.scheduled_time = runs[p][j].state.scheduled_time
              /\ {runs[p][i].id, runs[p][j].id} \subseteq newRows[p]

\* the pairs a call would generate with the window the claim describes, whose
\* default end is one year after the effective start
ClaimedOccurrences(a, clk) ==
    Occurrences(SchedulesOf(a.deployment_id), 1, EffMaxRuns(a), EffStart(a, clk),
                IF a.end_time = None THEN EffStart(a, clk) + Year ELSE a.end_time)

\* C12: each omitted argument gets its default independently (start: the
\* current time, end: the window start plus one year, max_runs: 100), so the
\* candidates of a call are the occurrences of that window; with a start_time
\* and no end_time the window ends one year after the given start_time.
C12_WindowDefaults ==
    \A p \in SeqProcs :
        pc[p] = "insert" =>
            [i \in 1..Len(runs[p]) |-> Pair(runs[p][i])] = ClaimedOccurrences(args[p], now)

\* C13: a call for a deployment that cannot be found fails at once with a
\* NotFound condition that reaches the caller, and writes no flow run and no
\* state row.
C13_NotFound ==
    /\ [](\A p \in SeqProcs :
            (~Idle(p) \/ pc[p] = "returned") => args[p].deployment_id \in DeploymentIds)
    /\ [](\A p \in SeqProcs :
            (pc[p] = "raised" /\ args[p].deployment_id \notin DeploymentIds) =>
                error[p] = "NotFound")
    /\ [][\A p \in SeqProcs :
            (ncalls' # ncalls /\ args'[p].deployment_id \notin DeploymentIds) =>
                /\ pc'[p] = "raised"
                /\ Tables' = Tables]_vars

\* C14: a backend identifier the linking step does not recognize is fatal to
\* the call: the step raises the configuration error to the caller and links
\* nothing, it does not go on with one of the two update strategies.
C14_LinkMismatch ==
    [][\A p \in SeqProcs :
          (pc[p] = "update" /\ ~Recognized(GetDialect)) =>
              /\ pc'[p] = "raised"
              /\ error'[p] = "ValueError"
              /\ flow_run' = flow_run]_vars

\* caller p has called with a deployment that exists, on a recognized dialect,
\* and the generator has found no occurrence
EmptyCall(p) ==
    /\ pc[p] # "idle"
    /\ args[p].deployment_id \in DeploymentIds
    /\ Recognized(dialect)
    /\ Candidates(p) = <<>>

\* C15: a call whose candidate list is empty returns an empty list and leaves
\* both tables as they are; it issues neither the insert of states nor the
\* linking update.
C15_EmptyCandidates ==
    /\ [](\A p \in SeqProcs :
            EmptyCall(p) =>
                /\ pc[p] \notin {"raised", "update"}
                /\ pc[p] = "returned" => result[p] = <<>>)
    /\ [][\A p \in SeqProcs : (EmptyCall(p) /\ ~Idle(p)) => Tables' = Tables]_vars

\* C16: from the same rows and the same new states, the update-join strategy
\* and the correlated-subquery strategy leave every row of flow_run, new or
\* not, with the same state_id.
C16_StrategyEquivalence ==
    \A p \in SeqProcs :
        pc[p] = "update" =>
            LET ids == {s.id : s \in Range(InsertFlowRunStates(runs[p],
                                                               inserted_flow_run_ids[p]))}
            IN UpdateFrom(flow_run, flow_run_state, ids)
                   = UpdateSubquery(flow_run, flow_run_state, ids)

\* C17: the sets of rows newly inserted by two calls in flight are disjoint;
\* no step of one call creates a state for, or changes the state_id of, a row
\* newly inserted by the other; and once both calls have returned every run
\* is linked to a state of its own.
C17_CallIsolation ==
    /\ [](\A p, q \in Procs : p # q => newRows[p] \cap newRows[q] = {})
    /\ [][\A p, q \in Procs :
            (p # q /\ pc'[p] # pc[p]) =>
                /\ \A x \in flow_run : x.id \in newRows[q] => x \in flow_run'
                /\ \A s \in flow_run_state' \ flow_run_state :
                      s.flow_run_id \notin newRows[q]]_vars
    /\ []((\A p \in Procs : pc[p] \in {"idle", "returned"}) =>
            \A x \in flow_run : \E s \in StatesOf(x.id) : x.state_id = s.id)

\* C18: the ids the inserted_rows query of a call returns are exactly the ids
\* of the candidates that the bulk insert of this same call stored: none that
\* was skipped on conflict, none that another call stored.
C18_DetectionExact ==
    \A p \in Procs :
        pc[p] \in {"states", "update"} =>
            /\ inserted_flow_run_ids[p] = newRows[p]
            /\ inserted_flow_run_ids[p] \subseteq {runs[p][i].id : i \in 1..Len(runs[p])}

\* a call has run the query after a bulk insert that stored some candidates
\* and skipped others, while the rows another call stored have no state yet
C18_Witness ==
    \E p, q \in Procs :
        /\ p # q
        /\ pc[p] = "states"
        /\ inserted_flow_run_ids[p] # {}
        /\ Cardinality(inserted_flow_run_ids[p]) < Len(runs[p])
        /\ pc[q] \in {"select", "states"}
        /\ newRows[q] # {}

\* C19: in every state of the store, each state row has type SCHEDULED and
\* belongs to a run that exists, and each run with a state_id refers to a
\* state row that belongs to that same run.
C19_LinkConsistency ==
    /\ \A s \in flow_run_state :
          /\ s.type = "SCHEDULED"
          /\ \E x \in flow_run : x.id = s.flow_run_id
    /\ \A x \in flow_run :
          x.state_id # NULL =>
              \E s \in flow_run_state : s.id = x.state_id /\ s.flow_run_id = x.id

\* both callers have returned runs, and runs of both are linked
C19_Witness ==
    /\ \A p \in Procs : pc[p] = "returned" /\ result[p] # <<>>
    /\ \A p \in Procs : \E x \in flow_run :
          /\ x.id = result[p][1].id
          /\ x.state_id = result[p][1].state.id
    /\ Cardinality(flow_run_state) > 2

\* C20: on a session whose dialect is neither sqlite nor postgresql the call
\* raises ValueError before the materializer issues any statement, whatever
\* the candidate list, the empty one included: no call gets to the bulk
\* insert and both tables stay as they are.
C20_DialectFirst ==
    /\ [](dialect \notin {"sqlite", "postgresql"} =>
            \A p \in SeqProcs :
                /\ pc[p] \in {"idle", "raised"}
                /\ (pc[p] = "raised" /\ args[p].deployment_id \in DeploymentIds) =>
                       error[p] = "ValueError")
    /\ [][dialect \notin {"sqlite", "postgresql"} => Tables' = Tables]_vars

\* on mysql, a call with candidates has raised ValueError and after it a call
\* with an empty candidate list has raised it too
C20_Witness ==
    \E p \in SeqProcs :
        /\ dialect = "mysql"
        /\ ncalls = MaxCalls
        /\ pc[p] = "raised"
        /\ error[p] = "ValueError"
        /\ args[p].deployment_id \in DeploymentIds
        /\ Candidates(p) = <<>>
        /\ Tables = <<{}, {}>>

====
